---------------------------- MODULE Spec2Model ----------------------------
(***************************************************************************)
(* Agentic AI Platform, React front end: the API client (services/api.js), *)
(* the agent detail page (pages/AgentDetailPage.js) and the agents list    *)
(* page (AgentsPage, stored as pages/CreateAgentPage.js).                  *)
(*                                                                         *)
(* JavaScript strings are sequences of one-character strings, so that      *)
(* String.prototype.trim and JSON.parse are computed character by          *)
(* character.  JavaScript values produced by JSON.parse are records        *)
(* tagged by their only field: [num |-> n], [str |-> s], [arr |-> <<..>>], *)
(* [obj |-> << <<key, value>>, .. >>] and [lit |-> "null"].                *)
(***************************************************************************)
EXTENDS Integers, Sequences, FiniteSets, TLC

(***************************************************************************)
(* Bounds of the model                                                     *)
(***************************************************************************)
\* the number of agents in the registry when the application starts
NumAgents == 2
\* the number of HTTP requests a behaviour issues in total
MaxRequests == 3

(***************************************************************************)
(* JavaScript strings and JSON.parse                                       *)
(***************************************************************************)
\* the characters the user's texts are made of
Alphabet == {" ", "{", "}", "[", "]", ":", ",", "\"", "-", "0", "1",
             "a", "h", "i", "n", "u", "l"}

\* white space of JSON.parse and (restricted to the alphabet) of trim()
WhiteSpace == {" ", "\t", "\n", "\r"}

Digits == {"0", "1", "2", "3", "4", "5", "6", "7", "8", "9"}

DigitVal(c) ==
    CASE c = "0" -> 0 [] c = "1" -> 1 [] c = "2" -> 2 [] c = "3" -> 3
      [] c = "4" -> 4 [] c = "5" -> 5 [] c = "6" -> 6 [] c = "7" -> 7
      [] c = "8" -> 8 [] c = "9" -> 9

MinOf(S) == CHOOSE x \in S : \A y \in S : x <= y
MaxOf(S) == CHOOSE x \in S : \A y \in S : y <= x

\* query.trim(): the text without its leading and trailing white space
Trim(s) ==
    LET keep == {i \in 1..Len(s) : s[i] \notin WhiteSpace}
    IN  IF keep = {} THEN <<>> ELSE SubSeq(s, MinOf(keep), MaxOf(keep))

\* the first position from i on that holds no white space (Len(s)+1: none)
SkipWs(s, i) ==
    MinOf({j \in i..(Len(s) + 1) : j = Len(s) + 1 \/ s[j] \notin WhiteSpace})

ParseFail == [ok |-> FALSE, val |-> [lit |-> "undefined"], pos |-> 0]
ParseOk(v, p) == [ok |-> TRUE, val |-> v, pos |-> p]

\* whether the word w stands in s at position i
MatchAt(s, i, w) ==
    /\ i + Len(w) - 1 <= Len(s)
    /\ \A k \in 1..Len(w) : s[i + k - 1] = w[k]

\* a JSON string starting at the quote s[i]; escapes are outside the alphabet
ParseString(s, i) ==
    LET closes == {k \in (i + 1)..Len(s) : s[k] = "\""}
    IN  IF closes = {} THEN ParseFail
        ELSE LET k == MinOf(closes)
                 body == SubSeq(s, i + 1, k - 1)
             IN  IF \E m \in 1..Len(body) : body[m] \in {"\t", "\n", "\r", "\\"}
                 THEN ParseFail
                 ELSE ParseOk([str |-> body], k + 1)

RECURSIVE DigitsValue(_)
DigitsValue(ds) ==
    IF ds = <<>> THEN 0
    ELSE 10 * DigitsValue(SubSeq(ds, 1, Len(ds) - 1)) + DigitVal(ds[Len(ds)])

\* a JSON number starting at s[i]: -? (0 | [1-9][0-9]*); fractions and
\* exponents need characters outside the alphabet
ParseNumber(s, i) ==
    LET neg  == s[i] = "-"
        b    == IF neg THEN i + 1 ELSE i
        e    == MinOf({j \in b..(Len(s) + 1) : j = Len(s) + 1 \/ s[j] \notin Digits})
        ds   == SubSeq(s, b, e - 1)
    IN  IF ds = <<>> THEN ParseFail
        ELSE IF Len(ds) > 1 /\ ds[1] = "0" THEN ParseOk([num |-> 0], b + 1)
        ELSE ParseOk([num |-> IF neg THEN 0 - DigitsValue(ds) ELSE DigitsValue(ds)], e)

\* obj[key] = value of JavaScript: a repeated key keeps its place and takes
\* the later value
SetMember(members, key, v) ==
    IF \E m \in 1..Len(members) : members[m][1] = key
    THEN [m \in 1..Len(members) |->
            IF members[m][1] = key THEN <<key, v>> ELSE members[m]]
    ELSE Append(members, <<key, v>>)

RECURSIVE ParseValue(_, _), ParseElements(_, _, _), ParseMembers(_, _, _)

\* a JSON value starting at or after s[i]
ParseValue(s, i) ==
    LET j == SkipWs(s, i)
    IN  IF j > Len(s) THEN ParseFail
        ELSE IF s[j] = "{" THEN
            LET k == SkipWs(s, j + 1)
            IN  IF k <= Len(s) /\ s[k] = "}"
                THEN ParseOk([obj |-> <<>>], k + 1)
                ELSE ParseMembers(s, j + 1, <<>>)
        ELSE IF s[j] = "[" THEN
            LET k == SkipWs(s, j + 1)
            IN  IF k <= Len(s) /\ s[k] = "]"
                THEN ParseOk([arr |-> <<>>], k + 1)
                ELSE ParseElements(s, j + 1, <<>>)
        ELSE IF s[j] = "\"" THEN ParseString(s, j)
        ELSE IF s[j] \in Digits \cup {"-"} THEN ParseNumber(s, j)
        ELSE IF MatchAt(s, j, <<"n", "u", "l", "l">>)
            THEN ParseOk([lit |-> "null"], j + 4)
        ELSE ParseFail

\* the elements of an array from s[i] on, after those of acc
ParseElements(s, i, acc) ==
    LET r == ParseValue(s, i)
    IN  IF ~r.ok THEN ParseFail
        ELSE LET k == SkipWs(s, r.pos)
             IN  IF k > Len(s) THEN ParseFail
                 ELSE IF s[k] = "," THEN ParseElements(s, k + 1, Append(acc, r.val))
                 ELSE IF s[k] = "]" THEN ParseOk([arr |-> Append(acc, r.val)], k + 1)
                 ELSE ParseFail

\* the members of an object from s[i] on, after those of acc
ParseMembers(s, i, acc) ==
    LET j == SkipWs(s, i)
    IN  IF j > Len(s) \/ s[j] # "\"" THEN ParseFail
        ELSE LET key == ParseString(s, j)
             IN  IF ~key.ok THEN ParseFail
                 ELSE LET c == SkipWs(s, key.pos)
                      IN  IF c > Len(s) \/ s[c] # ":" THEN ParseFail
                          ELSE LET r == ParseValue(s, c + 1)
                               IN  IF ~r.ok THEN ParseFail
                                   ELSE LET k    == SkipWs(s, r.pos)
                                            mems == SetMember(acc, key.val.str, r.val)
                                        IN  IF k > Len(s) THEN ParseFail
                                            ELSE IF s[k] = "," THEN ParseMembers(s, k + 1, mems)
                                            ELSE IF s[k] = "}" THEN ParseOk([obj |-> mems], k + 1)
                                            ELSE ParseFail

\* JSON.parse(text): ok is FALSE where JSON.parse throws a SyntaxError
JSONParse(s) ==
    LET r == ParseValue(s, 1)
    IN  IF r.ok /\ SkipWs(s, r.pos) = Len(s) + 1
        THEN [ok |-> TRUE, val |-> r.val]
        ELSE [ok |-> FALSE, val |-> [lit |-> "undefined"]]

(***************************************************************************)
(* Values                                                                  *)
(***************************************************************************)
\* JavaScript null, for object-valued and for string-valued state
Null == [null |-> TRUE]
NullS == "null"

\* localStorage.getItem('token') when nothing is stored
NoToken == NullS
Tokens == {"tokA"}

\* a header that is not set
NoHeader == <<>>

\* the ids a route can name: those of the registry's agents, and one more
\* that names no agent
AgentIds == 1..(NumAgents + 1)

\* the registry's records as created: the type is fixed by the id, rag
\* agents carry a collection name
TypeOf(id) ==
    CASE id % 3 = 1 -> "rag" [] id % 3 = 2 -> "ml" [] OTHER -> "search"

AgentRecord(id) ==
    [id |-> id, type |-> TypeOf(id),
     config |-> [collection_name |-> IF TypeOf(id) = "rag" THEN "docs" ELSE ""]]

\* the texts the user types into the query box
QueryTexts ==
    { <<" ">>,
      <<"h", "i", " ">>,
      <<" ", "1">>,
      <<"{", "\"", "a", "\"", ":", "1", "}">> }

Files == {"doc1"}

\* HTTP statuses of failed responses; NetworkError has no response at all
ErrorStatuses == {401, 404, 500}
HttpError(status) == [hasResponse |-> TRUE, status |-> status]
NetworkError == [hasResponse |-> FALSE, status |-> 0]
NoError == [hasResponse |-> FALSE, status |-> -1]

\* the bodies of successful responses
QueryResponse == [answer |-> "answer"]
UploadResponse == [message |-> "uploaded"]
TokenResponse == [access_token |-> "tokA"]

\* parameters = {} and { data: v } of queryAgent
EmptyObject == [obj |-> <<>>]
DataObject(v) == [obj |-> << << <<"d", "a", "t", "a">>, v >> >>]

(***************************************************************************)
(* State                                                                   *)
(***************************************************************************)
VARIABLES
    token,        \* localStorage 'token'
    href,         \* "/login" once window.location.href was assigned, else ""
    route,        \* the matched route, its :agentId, and whether its effect is due
    detailPage,   \* the state of AgentDetailPage
    agentsPage,   \* the state of AgentsPage
    pending,      \* the requests in flight, in the order they were issued
    issued,       \* the number of requests issued so far
    registry,     \* the records of the agents the backend holds, by id
    lastEvent     \* the step taken last

vars == <<token, href, route, detailPage, agentsPage, pending, issued,
          registry, lastEvent>>

\* useState's initial values of AgentDetailPage
DetailInit ==
    [agent |-> Null, loading |-> TRUE, error |-> NullS,
     query |-> <<>>, queryResult |-> Null, queryLoading |-> FALSE,
     queryError |-> NullS,
     file |-> NullS, uploadResult |-> Null, uploadLoading |-> FALSE,
     uploadError |-> NullS]

\* useState's initial values of AgentsPage
AgentsInit == [agents |-> <<>>, loading |-> TRUE, error |-> NullS]

Init ==
    /\ token \in Tokens \cup {NoToken}
    /\ href = ""
    /\ route = [page |-> "other", agentId |-> 0, effectDue |-> FALSE]
    /\ detailPage = DetailInit
    /\ agentsPage = AgentsInit
    /\ pending = <<>>
    /\ issued = 0
    /\ registry = [id \in 1..NumAgents |-> AgentRecord(id)]
    /\ lastEvent = [kind |-> "init"]

(***************************************************************************)
(* The API client, services/api.js                                         *)
(***************************************************************************)
\* if (token): null and the empty string are falsy
Truthy(tok) == tok # NoToken /\ tok # ""

\* the request interceptor without its header assignment
RequestInterceptorNoHeader(headers, tok) == headers

\* api.interceptors.request.use: the headers of the request config
RequestInterceptor(headers, tok) ==
    IF Truthy(tok)
    THEN [headers EXCEPT !.Authorization = <<"Bearer", tok>>]
    ELSE headers

\* a request as the shared axios instance `api` sends it
ApiRequest(op, agentId, body, contentType, owner, closure) ==
    [op |-> op, via |-> "api", agentId |-> agentId, body |-> body,
     headers |-> RequestInterceptor(
                    [ContentType |-> contentType, Authorization |-> NoHeader],
                    token),
     owner |-> owner, live |-> TRUE, closure |-> closure]

\* a request sent with axios itself, which has no interceptors
AxiosRequest(op, agentId, body, contentType, owner, closure) ==
    [op |-> op, via |-> "axios", agentId |-> agentId, body |-> body,
     headers |-> [ContentType |-> contentType, Authorization |-> NoHeader],
     owner |-> owner, live |-> TRUE, closure |-> closure]

\* authService.login
LoginRequest(username, password) ==
    AxiosRequest("login", 0, [username |-> username, password |-> password],
                 "application/x-www-form-urlencoded", "caller", <<>>)

\* register, getCurrentUser, createAgent and updateAgent, whose callers are
\* not part of the pages modelled here
OtherOps == {"register", "getCurrentUser", "createAgent", "updateAgent"}
OtherRequest(op, agentId, body) ==
    ApiRequest(op, agentId, body, "application/json", "caller", <<>>)

\* agentData of updateAgent(agentId, agentData): whatever the caller passes,
\* a type and a config among it; a config may lack its collection_name
UpdateData ==
    { [type |-> "ml", config |-> [collection_name |-> ""]],
      [type |-> "search", config |-> [collection_name |-> NullS]] }
BodiesOf(op) == IF op = "updateAgent" THEN UpdateData ELSE {<<>>}

\* agentsService.getAgents, getAgent, deleteAgent
GetAgentsRequest(owner) ==
    ApiRequest("getAgents", 0, <<>>, "application/json", owner, <<>>)
GetAgentRequest(agentId) ==
    ApiRequest("getAgent", agentId, <<>>, "application/json", "detail", <<>>)
DeleteAgentRequest(agentId, owner, closure) ==
    ApiRequest("deleteAgent", agentId, <<>>, "application/json", owner, closure)

\* agentsService.queryAgent(agentId, query, parameters = {})
QueryAgentRequest(agentId, query, parameters) ==
    ApiRequest("queryAgent", agentId,
               [query |-> query, parameters |-> parameters],
               "application/json", "detail", <<>>)

\* uploadDocument appending collection_name without testing the name
UploadDocumentRequestAlwaysName(agentId, file, collectionName) ==
    ApiRequest("uploadDocument", agentId,
               [file |-> file, collection_name |-> collectionName],
               "multipart/form-data", "detail", <<>>)

\* agentsService.uploadDocument(agentId, file, collectionName = null): the
\* form holds collection_name only if the name is truthy
UploadDocumentRequest(agentId, file, collectionName) ==
    ApiRequest("uploadDocument", agentId,
               IF collectionName # NullS /\ collectionName # ""
               THEN [file |-> file, collection_name |-> collectionName]
               ELSE [file |-> file],
               "multipart/form-data", "detail", <<>>)

\* the error handler without its localStorage.removeItem('token')
ResponseErrorInterceptorNoRemove(error) ==
    IF error.hasResponse /\ error.status = 401
    THEN [removeCalls |-> 0, redirect |-> TRUE, rejection |-> error]
    ELSE [removeCalls |-> 0, redirect |-> FALSE, rejection |-> error]

\* the error handler testing error.response alone, not its status
ResponseErrorInterceptorAnyStatus(error) ==
    IF error.hasResponse
    THEN [removeCalls |-> 1, redirect |-> TRUE, rejection |-> error]
    ELSE [removeCalls |-> 0, redirect |-> FALSE, rejection |-> error]

\* the error handler ending a 401 with the redirect, without
\* Promise.reject: the caller's await resolves
ResponseErrorInterceptorSwallows401(error) ==
    IF error.hasResponse /\ error.status = 401
    THEN [removeCalls |-> 1, redirect |-> TRUE, rejection |-> NoError]
    ELSE [removeCalls |-> 0, redirect |-> FALSE, rejection |-> error]

\* the error handler taking every error status for an expired session
ResponseErrorInterceptorAnyFailure(error) ==
    IF error.hasResponse /\ error.status >= 400
    THEN [removeCalls |-> 1, redirect |-> TRUE, rejection |-> error]
    ELSE [removeCalls |-> 0, redirect |-> FALSE, rejection |-> error]

\* api.interceptors.response.use, the error handler: how often it calls
\* localStorage.removeItem('token'), whether it assigns '/login' to
\* window.location.href, and what it rejects with
ResponseErrorInterceptor(error) ==
    IF error.hasResponse /\ error.status = 401
    THEN [removeCalls |-> 1, redirect |-> TRUE, rejection |-> error]
    ELSE [removeCalls |-> 0, redirect |-> FALSE, rejection |-> error]

\* catch (error) { throw error; } of every service operation
ServiceCatch(error) == error

\* a failed response on its way to the caller of the service operation
FailedResponse(req, error) ==
    LET seen == IF req.via = "api"
                THEN ResponseErrorInterceptor(error)
                ELSE [removeCalls |-> 0, redirect |-> FALSE,
                      rejection |-> error]
    IN  [seen EXCEPT !.rejection = ServiceCatch(seen.rejection)]

(***************************************************************************)
(* The backend, as the client sees it                                      *)
(***************************************************************************)
AgentOps == {"getAgent", "deleteAgent", "queryAgent", "uploadDocument",
             "updateAgent"}

\* a request can be answered with success if the agent it names exists
CanSucceed(req) == req.op \in AgentOps => req.agentId \in DOMAIN registry

\* the errors a request can be answered with: 404 for a missing agent
ErrorsFor(req) ==
    {HttpError(401), HttpError(500), NetworkError}
        \cup (IF req.op \in AgentOps /\ req.agentId \notin DOMAIN registry
              THEN {HttpError(404)} ELSE {})

RECURSIVE RecordsOf(_)
\* the records of a set of ids, by ascending id
RecordsOf(ids) ==
    IF ids = {} THEN <<>>
    ELSE LET m == MaxOf(ids)
         IN  Append(RecordsOf(ids \ {m}), registry[m])

\* an update that takes the type from the data as well
BackendUpdateWithType(rec, data) ==
    [rec EXCEPT !.config = data.config, !.type = data.type]

\* the registry's update of a record: the config is replaced, the type
\* stays the one the agent was created with
BackendUpdate(rec, data) == [rec EXCEPT !.config = data.config]

\* the registry once the request has succeeded
BackendApplied(req) ==
    CASE req.op = "deleteAgent" ->
            [id \in DOMAIN registry \ {req.agentId} |-> registry[id]]
      [] req.op = "updateAgent" ->
            [registry EXCEPT ![req.agentId] = BackendUpdate(@, req.body)]
      [] OTHER -> registry

\* response.data of a successful response
ResponseData(req) ==
    CASE req.op = "getAgent"       -> registry[req.agentId]
      [] req.op = "getAgents"      -> RecordsOf(DOMAIN registry)
      [] req.op = "queryAgent"     -> QueryResponse
      [] req.op = "uploadDocument" -> UploadResponse
      [] req.op = "login"          -> TokenResponse
      [] OTHER                     -> Null

(***************************************************************************)
(* AgentDetailPage                                                         *)
(***************************************************************************)
\* the page past its three early returns: the agent is shown
DetailRendered(d) == ~d.loading /\ d.error = NullS /\ d.agent # Null

\* what the page renders: the spinner, the error text with its link back,
\* "Agent not found." with its link back, or the agent with its controls
DetailView(d) ==
    IF d.loading THEN "spinner"
    ELSE IF d.error # NullS THEN "error"
    ELSE IF d.agent = Null THEN "notFound"
    ELSE "detail"

\* the query button without its disabled attribute
QuerySubmitNeverDisabled(d) == FALSE

\* the query button disabled by either loading flag
QuerySubmitDisabledWhileUploading(d) == d.queryLoading \/ d.uploadLoading

\* disabled={queryLoading}
QuerySubmitDisabled(d) == d.queryLoading

\* disabled={uploadLoading || !file}
UploadSubmitDisabled(d) == d.uploadLoading \/ d.file = NullS

\* the upload form is rendered for rag agents only
UploadFormRendered(d) == DetailRendered(d) /\ d.agent.type = "rag"

\* fetchAgent of the effect, once getAgent has settled
FetchAgentSettled(d, ok, data) ==
    IF ok
    THEN [d EXCEPT !.agent = data, !.loading = FALSE]
    ELSE [d EXCEPT !.error = "Failed to load agent details.",
                   !.loading = FALSE]

\* handleQuerySubmit with JSON.parse moved into the service call's promise:
\* the request is sent whatever the text
HandleQuerySubmitNoParse(d, agentId) ==
    IF Trim(d.query) = <<>> THEN [d |-> d, send |-> <<>>]
    ELSE [d |-> [d EXCEPT !.queryLoading = TRUE, !.queryResult = Null,
                          !.queryError = NullS],
          send |-> <<QueryAgentRequest(agentId, d.query, EmptyObject)>>]

\* handleQuerySubmit sending the text itself as data, unparsed
HandleQuerySubmitRawData(d, agentId) ==
    IF Trim(d.query) = <<>> THEN [d |-> d, send |-> <<>>]
    ELSE LET started == [d EXCEPT !.queryLoading = TRUE,
                                  !.queryResult = Null,
                                  !.queryError = NullS]
         IN  IF d.agent.type = "ml"
             THEN IF JSONParse(d.query).ok
                  THEN [d |-> started,
                        send |-> <<QueryAgentRequest(
                                     agentId, <<>>, DataObject([str |-> d.query]))>>]
                  ELSE [d |-> [started EXCEPT
                                 !.queryError =
                                    "Failed to get a response from the agent.",
                                 !.queryLoading = FALSE],
                        send |-> <<>>]
             ELSE [d |-> started,
                   send |-> <<QueryAgentRequest(agentId, d.query, EmptyObject)>>]

\* handleQuerySubmit without setQueryResult(null) and setQueryError(null)
HandleQuerySubmitKeepsOld(d, agentId) ==
    IF Trim(d.query) = <<>> THEN [d |-> d, send |-> <<>>]
    ELSE LET started == [d EXCEPT !.queryLoading = TRUE]
         IN  IF d.agent.type = "ml"
             THEN LET parsed == JSONParse(d.query)
                  IN  IF parsed.ok
                      THEN [d |-> started,
                            send |-> <<QueryAgentRequest(
                                         agentId, <<>>, DataObject(parsed.val))>>]
                      ELSE [d |-> [started EXCEPT
                                     !.queryError =
                                        "Failed to get a response from the agent.",
                                     !.queryLoading = FALSE],
                            send |-> <<>>]
             ELSE [d |-> started,
                   send |-> <<QueryAgentRequest(agentId, d.query, EmptyObject)>>]

\* handleQuerySubmit testing !query in place of !query.trim()
HandleQuerySubmitNoTrim(d, agentId) ==
    IF d.query = <<>> THEN [d |-> d, send |-> <<>>]
    ELSE LET started == [d EXCEPT !.queryLoading = TRUE,
                                  !.queryResult = Null,
                                  !.queryError = NullS]
         IN  IF d.agent.type = "ml"
             THEN LET parsed == JSONParse(d.query)
                  IN  IF parsed.ok
                      THEN [d |-> started,
                            send |-> <<QueryAgentRequest(
                                         agentId, <<>>, DataObject(parsed.val))>>]
                      ELSE [d |-> [started EXCEPT
                                     !.queryError =
                                        "Failed to get a response from the agent.",
                                     !.queryLoading = FALSE],
                            send |-> <<>>]
             ELSE [d |-> started,
                   send |-> <<QueryAgentRequest(agentId, d.query, EmptyObject)>>]

\* handleQuerySubmit without the else: an ml query is sent a second time
\* as plain text
HandleQuerySubmitTwice(d, agentId) ==
    IF Trim(d.query) = <<>> THEN [d |-> d, send |-> <<>>]
    ELSE LET started == [d EXCEPT !.queryLoading = TRUE,
                                  !.queryResult = Null,
                                  !.queryError = NullS]
             plain   == QueryAgentRequest(agentId, d.query, EmptyObject)
         IN  IF d.agent.type = "ml"
             THEN LET parsed == JSONParse(d.query)
                  IN  IF parsed.ok
                      THEN [d |-> started,
                            send |-> <<QueryAgentRequest(
                                         agentId, <<>>, DataObject(parsed.val)),
                                       plain>>]
                      ELSE [d |-> [started EXCEPT
                                     !.queryError =
                                        "Failed to get a response from the agent.",
                                     !.queryLoading = FALSE],
                            send |-> <<>>]
             ELSE [d |-> started, send |-> <<plain>>]

\* handleQuerySubmit up to its await: the state it sets and the requests it
\* sends
HandleQuerySubmit(d, agentId) ==
    IF Trim(d.query) = <<>> THEN [d |-> d, send |-> <<>>]
    ELSE LET started == [d EXCEPT !.queryLoading = TRUE,
                                  !.queryResult = Null,
                                  !.queryError = NullS]
         IN  IF d.agent.type = "ml"
             THEN LET parsed == JSONParse(d.query)
                  IN  IF parsed.ok
                      THEN [d |-> started,
                            send |-> <<QueryAgentRequest(
                                         agentId, <<>>, DataObject(parsed.val))>>]
                      ELSE [d |-> [started EXCEPT
                                     !.queryError =
                                        "Failed to get a response from the agent.",
                                     !.queryLoading = FALSE],
                            send |-> <<>>]
             ELSE [d |-> started,
                   send |-> <<QueryAgentRequest(agentId, d.query, EmptyObject)>>]

\* handleQuerySubmit with setQueryLoading(false) at the end of the try block
\* instead of in a finally
QuerySettledNoFinally(d, ok, data) ==
    IF ok
    THEN [d EXCEPT !.queryResult = data, !.queryLoading = FALSE]
    ELSE [d EXCEPT !.queryError = "Failed to get a response from the agent."]

\* handleQuerySubmit after its await
QuerySettled(d, ok, data) ==
    IF ok
    THEN [d EXCEPT !.queryResult = data, !.queryLoading = FALSE]
    ELSE [d EXCEPT !.queryError = "Failed to get a response from the agent.",
                   !.queryLoading = FALSE]

\* handleFileUpload without its if (!file) return
HandleFileUploadNoGuard(d, agentId) ==
    [d |-> [d EXCEPT !.uploadLoading = TRUE,
                     !.uploadResult = Null,
                     !.uploadError = NullS],
     send |-> <<UploadDocumentRequest(
                  agentId, d.file, d.agent.config.collection_name)>>]

\* handleFileUpload up to its await
HandleFileUpload(d, agentId) ==
    IF d.file = NullS THEN [d |-> d, send |-> <<>>]
    ELSE [d |-> [d EXCEPT !.uploadLoading = TRUE,
                          !.uploadResult = Null,
                          !.uploadError = NullS],
          send |-> <<UploadDocumentRequest(
                       agentId, d.file, d.agent.config.collection_name)>>]

\* handleFileUpload with setFile(null) in its finally
UploadSettledClearsFile(d, ok, data) ==
    IF ok
    THEN [d EXCEPT !.uploadResult = data, !.file = NullS,
                   !.uploadLoading = FALSE]
    ELSE [d EXCEPT !.uploadError = "Failed to upload document.",
                   !.file = NullS, !.uploadLoading = FALSE]

\* handleFileUpload after its await
UploadSettled(d, ok, data) ==
    IF ok
    THEN [d EXCEPT !.uploadResult = data, !.file = NullS,
                   !.uploadLoading = FALSE]
    ELSE [d EXCEPT !.uploadError = "Failed to upload document.",
                   !.uploadLoading = FALSE]

\* deleteAgent of the detail page, its catch
DetailDeleteFailed(d) ==
    [d EXCEPT !.error = "Failed to delete agent. Please try again."]

(***************************************************************************)
(* AgentsPage                                                              *)
(***************************************************************************)
\* the list and its Delete buttons are rendered once loading is false
ListRendered(a) == ~a.loading

\* agents.filter(agent => agent.id !== agentId)
FilterOut(agents, agentId) ==
    SelectSeq(agents, LAMBDA agent : agent.id # agentId)

\* fetchAgents of the effect, once getAgents has settled
FetchAgentsSettled(a, ok, data) ==
    IF ok
    THEN [a EXCEPT !.agents = data, !.loading = FALSE]
    ELSE [a EXCEPT !.error = "Failed to load agents. Please try again later.",
                   !.loading = FALSE]

\* deleteAgent of the list page dropping the entry whatever the outcome
ListDeleteSettledOptimistic(a, ok, agentId, closure) ==
    IF ok
    THEN [a EXCEPT !.agents = FilterOut(closure, agentId)]
    ELSE [a EXCEPT !.agents = FilterOut(closure, agentId),
                   !.error = "Failed to delete agent. Please try again."]

\* deleteAgent of the list page after its await; closure is the agents of
\* the render whose Delete button was clicked
ListDeleteSettled(a, ok, agentId, closure) ==
    IF ok
    THEN [a EXCEPT !.agents = FilterOut(closure, agentId)]
    ELSE [a EXCEPT !.error = "Failed to delete agent. Please try again."]

(***************************************************************************)
(* Routing: <Route path="agents/:agentId">, Link and navigate()            *)
(*                                                                         *)
(* route.page is "agents" for AgentsPage, "detail" for AgentDetailPage and *)
(* "other" for every other route (home, login, register, create), none of  *)
(* which fetches on its own.                                               *)
(***************************************************************************)
\* the pages whose mount effect fetches
EffectPages == {"agents", "detail"}

\* the requests of an unmounted component stay in flight; their setState
\* calls no longer reach a component
Orphaned(pend, owner) ==
    [i \in DOMAIN pend |->
        IF pend[i].owner = owner THEN [pend[i] EXCEPT !.live = FALSE]
        ELSE pend[i]]

\* the application after a navigation to page (with :agentId id) while the
\* requests pend are in flight.  A change of :agentId keeps the mounted
\* AgentDetailPage and its state and re-runs its effect; any other change
\* of route unmounts the old page and mounts the new one.
Navigated(page, id, pend) ==
    IF route.page = page /\ route.agentId = id
    THEN [route |-> route, detailPage |-> detailPage,
          agentsPage |-> agentsPage, pending |-> pend]
    ELSE IF route.page = "detail" /\ page = "detail"
    THEN [route |-> [page |-> page, agentId |-> id, effectDue |-> TRUE],
          detailPage |-> detailPage, agentsPage |-> agentsPage,
          pending |-> pend]
    ELSE [route |-> [page |-> page, agentId |-> id,
                     effectDue |-> page \in EffectPages],
          detailPage |-> DetailInit, agentsPage |-> AgentsInit,
          pending |-> Orphaned(pend, route.page)]

\* whether a navigation makes an effect due, which will issue a request
NeedsFetch(page, id) ==
    /\ page \in EffectPages
    /\ ~(route.page = page /\ route.agentId = id)

\* n more requests may be issued
Budget(n) == issued + n <= MaxRequests

\* the user follows a link or moves in the history
Navigate(page, id) ==
    /\ ~route.effectDue
    /\ ~(route.page = page /\ route.agentId = id)
    /\ NeedsFetch(page, id) => Budget(1)
    /\ LET n == Navigated(page, id, pending)
       IN  /\ route' = n.route
           /\ detailPage' = n.detailPage
           /\ agentsPage' = n.agentsPage
           /\ pending' = n.pending
    /\ lastEvent' = [kind |-> "navigate"]
    /\ UNCHANGED <<token, href, issued, registry>>

\* useEffect(fetchAgent, [agentId]) and useEffect(fetchAgents, [])
FetchEffect ==
    /\ route.effectDue
    /\ Budget(1)
    /\ route' = [route EXCEPT !.effectDue = FALSE]
    /\ pending' = Append(pending,
                         IF route.page = "detail"
                         THEN GetAgentRequest(route.agentId)
                         ELSE GetAgentsRequest("agents"))
    /\ issued' = issued + 1
    /\ lastEvent' = [kind |-> "effect"]
    /\ UNCHANGED <<token, href, detailPage, agentsPage, registry>>

(***************************************************************************)
(* The user on AgentDetailPage                                             *)
(***************************************************************************)
DetailShown ==
    route.page = "detail" /\ ~route.effectDue /\ DetailRendered(detailPage)

\* onChange of the textarea
SetQuery(text) ==
    /\ DetailShown
    /\ text # detailPage.query
    /\ detailPage' = [detailPage EXCEPT !.query = text]
    /\ lastEvent' = [kind |-> "setQuery"]
    /\ UNCHANGED <<token, href, route, agentsPage, pending, issued,
                   registry>>

\* the query form is submitted: its button is enabled, and the required
\* textarea is not empty
QuerySubmit ==
    /\ DetailShown
    /\ ~QuerySubmitDisabled(detailPage)
    /\ detailPage.query # <<>>
    /\ LET h == HandleQuerySubmit(detailPage, route.agentId)
       IN  /\ Budget(Len(h.send))
           /\ detailPage' = h.d
           /\ pending' = pending \o h.send
           /\ issued' = issued + Len(h.send)
    /\ lastEvent' = [kind |-> "querySubmit"]
    /\ UNCHANGED <<token, href, route, agentsPage, registry>>

\* handleFileChange with a file chosen
FileChange(f) ==
    /\ DetailShown
    /\ UploadFormRendered(detailPage)
    /\ f # detailPage.file
    /\ detailPage' = [detailPage EXCEPT !.file = f]
    /\ lastEvent' = [kind |-> "fileChange"]
    /\ UNCHANGED <<token, href, route, agentsPage, pending, issued,
                   registry>>

\* the upload form is submitted: its button is enabled
UploadSubmit ==
    /\ DetailShown
    /\ UploadFormRendered(detailPage)
    /\ ~UploadSubmitDisabled(detailPage)
    /\ LET h == HandleFileUpload(detailPage, route.agentId)
       IN  /\ Budget(Len(h.send))
           /\ detailPage' = h.d
           /\ pending' = pending \o h.send
           /\ issued' = issued + Len(h.send)
    /\ lastEvent' = [kind |-> "uploadSubmit"]
    /\ UNCHANGED <<token, href, route, agentsPage, registry>>

\* deleteAgent of the detail page up to its await
DetailDelete(confirmed) ==
    /\ DetailShown
    /\ IF confirmed
       THEN /\ Budget(1)
            /\ pending' = Append(pending,
                                 DeleteAgentRequest(route.agentId, "detail", <<>>))
            /\ issued' = issued + 1
       ELSE UNCHANGED <<pending, issued>>
    /\ lastEvent' = [kind |-> "deleteAgent", page |-> "detail",
                     agentId |-> route.agentId, confirmed |-> confirmed]
    /\ UNCHANGED <<token, href, route, detailPage, agentsPage,
                   registry>>

(***************************************************************************)
(* The user on AgentsPage                                                  *)
(***************************************************************************)
ListShown ==
    route.page = "agents" /\ ~route.effectDue /\ ListRendered(agentsPage)

\* deleteAgent of the list page up to its await
ListDelete(agentId, confirmed) ==
    /\ ListShown
    /\ \E k \in DOMAIN agentsPage.agents : agentsPage.agents[k].id = agentId
    /\ IF confirmed
       THEN /\ Budget(1)
            /\ pending' = Append(pending,
                                 DeleteAgentRequest(agentId, "agents",
                                                    agentsPage.agents))
            /\ issued' = issued + 1
       ELSE UNCHANGED <<pending, issued>>
    /\ lastEvent' = [kind |-> "deleteAgent", page |-> "agents",
                     agentId |-> agentId, confirmed |-> confirmed]
    /\ UNCHANGED <<token, href, route, detailPage, agentsPage,
                   registry>>

(***************************************************************************)
(* Callers outside the two pages                                           *)
(***************************************************************************)
\* the login form calls authService.login
Login ==
    /\ route.page = "other"
    /\ Budget(1)
    /\ pending' = Append(pending, LoginRequest("user", "secret"))
    /\ issued' = issued + 1
    /\ lastEvent' = [kind |-> "call", op |-> "login"]
    /\ UNCHANGED <<token, href, route, detailPage, agentsPage,
                   registry>>

\* register, getCurrentUser, createAgent or updateAgent is called
OtherCall(op, body) ==
    /\ route.page = "other"
    /\ Budget(1)
    /\ pending' = Append(pending,
                         OtherRequest(op, IF op = "updateAgent" THEN 1 ELSE 0,
                                      body))
    /\ issued' = issued + 1
    /\ lastEvent' = [kind |-> "call", op |-> op]
    /\ UNCHANGED <<token, href, route, detailPage, agentsPage,
                   registry>>

\* the login flow stores the token it was given
StoreToken(data) == data.access_token

\* logout removes the token
Logout ==
    /\ ~route.effectDue
    /\ token # NoToken
    /\ token' = NoToken
    /\ lastEvent' = [kind |-> "logout"]
    /\ UNCHANGED <<href, route, detailPage, agentsPage, pending, issued,
                   registry>>

(***************************************************************************)
(* Responses                                                               *)
(***************************************************************************)
RemoveAt(seq, i) == SubSeq(seq, 1, i - 1) \o SubSeq(seq, i + 1, Len(seq))

\* what the awaiting handler does once the service operation has settled,
\* with the requests pend still in flight.  A state setter of an unmounted
\* component does nothing; navigate('/agents') is a plain call.
Continuation(req, ok, data, pend) ==
    LET same == [route |-> route, detailPage |-> detailPage,
                 agentsPage |-> agentsPage, pending |-> pend]
    IN  CASE req.owner = "detail" /\ req.op = "deleteAgent" /\ ok ->
                Navigated("agents", 0, pend)
          [] req.owner = "detail" /\ req.op = "deleteAgent" /\ ~ok /\ req.live ->
                [same EXCEPT !.detailPage = DetailDeleteFailed(detailPage)]
          [] req.owner = "detail" /\ req.op = "getAgent" /\ req.live ->
                [same EXCEPT !.detailPage = FetchAgentSettled(detailPage, ok, data)]
          [] req.owner = "detail" /\ req.op = "queryAgent" /\ req.live ->
                [same EXCEPT !.detailPage = QuerySettled(detailPage, ok, data)]
          [] req.owner = "detail" /\ req.op = "uploadDocument" /\ req.live ->
                [same EXCEPT !.detailPage = UploadSettled(detailPage, ok, data)]
          [] req.owner = "agents" /\ req.op = "getAgents" /\ req.live ->
                [same EXCEPT !.agentsPage = FetchAgentsSettled(agentsPage, ok, data)]
          [] req.owner = "agents" /\ req.op = "deleteAgent" /\ req.live ->
                [same EXCEPT !.agentsPage =
                    ListDeleteSettled(agentsPage, ok, req.agentId, req.closure)]
          [] OTHER -> same

\* the request pending[i] is answered with success
RespondOk(i) ==
    /\ ~route.effectDue
    /\ i \in DOMAIN pending
    /\ LET req  == pending[i]
           data == ResponseData(req)
           c    == Continuation(req, TRUE, data, RemoveAt(pending, i))
       IN  /\ CanSucceed(req)
           /\ c.route.effectDue => Budget(1)
           /\ registry' = BackendApplied(req)
           /\ token' = IF req.op = "login" THEN StoreToken(data) ELSE token
           /\ route' = c.route
           /\ detailPage' = c.detailPage
           /\ agentsPage' = c.agentsPage
           /\ pending' = c.pending
           /\ lastEvent' = [kind |-> "response", req |-> req, ok |-> TRUE,
                            error |-> NoError, rejection |-> NoError,
                            removeCalls |-> 0, redirect |-> FALSE]
    /\ UNCHANGED <<href, issued>>

\* the request pending[i] fails with error: an HTTP error status, or no
\* response at all.  The awaiting handler takes its catch path because the
\* interceptor and the service hand the error on as a rejection.
RespondError(i, error) ==
    /\ ~route.effectDue
    /\ i \in DOMAIN pending
    /\ LET req  == pending[i]
           fail == FailedResponse(req, error)
           c    == Continuation(req, fail.rejection = NoError, Null,
                                RemoveAt(pending, i))
       IN  /\ error \in ErrorsFor(req)
           /\ token' = IF fail.removeCalls > 0 THEN NoToken ELSE token
           /\ href' = IF fail.redirect THEN "/login" ELSE href
           /\ route' = c.route
           /\ detailPage' = c.detailPage
           /\ agentsPage' = c.agentsPage
           /\ pending' = c.pending
           /\ lastEvent' = [kind |-> "response", req |-> req, ok |-> FALSE,
                            error |-> error, rejection |-> fail.rejection,
                            removeCalls |-> fail.removeCalls,
                            redirect |-> fail.redirect]
    /\ UNCHANGED <<issued, registry>>

\* the document at /login replaces the application: its state is gone and
\* its requests are aborted
Unload ==
    /\ ~route.effectDue
    /\ href = "/login"
    /\ href' = ""
    /\ route' = [page |-> "other", agentId |-> 0, effectDue |-> FALSE]
    /\ detailPage' = DetailInit
    /\ agentsPage' = AgentsInit
    /\ pending' = <<>>
    /\ lastEvent' = [kind |-> "unload"]
    /\ UNCHANGED <<token, issued, registry>>

(***************************************************************************)
(* The specification                                                       *)
(***************************************************************************)
Next ==
    \/ \E id \in AgentIds : Navigate("detail", id)
    \/ Navigate("agents", 0)
    \/ Navigate("other", 0)
    \/ FetchEffect
    \/ \E text \in QueryTexts : SetQuery(text)
    \/ QuerySubmit
    \/ \E f \in Files : FileChange(f)
    \/ UploadSubmit
    \/ \E confirmed \in BOOLEAN : DetailDelete(confirmed)
    \/ \E id \in AgentIds, confirmed \in BOOLEAN : ListDelete(id, confirmed)
    \/ Login
    \/ \E op \in OtherOps : \E body \in BodiesOf(op) : OtherCall(op, body)
    \/ Logout
    \/ \E i \in 1..MaxRequests : RespondOk(i)
    \/ \E i \in 1..MaxRequests, error \in {HttpError(401), HttpError(404),
                                          HttpError(500), NetworkError} :
          RespondError(i, error)
    \/ Unload

Spec == Init /\ [][Next]_vars

(***************************************************************************)
(* Properties                                                              *)
(***************************************************************************)
\* the steps, as lastEvent' names them
IsResponse(e) == e.kind = "response"
Is401(e) == IsResponse(e) /\ ~e.ok /\ e.error.hasResponse /\ e.error.status = 401
IssueKinds == {"effect", "querySubmit", "uploadSubmit", "deleteAgent", "call"}

\* the request a step has issued last
Newest(pend) == pend[Len(pend)]

\* Authorization: Bearer <token> for a stored token, no header without one
BearerOf(tok) == IF tok # NoToken THEN <<"Bearer", tok>> ELSE NoHeader

\* C1 as stated: a response with status 401 to any operation, login among
\* them, makes the client call localStorage.removeItem('token') once,
\* leaves no token stored and assigns '/login' to window.location.href.
C1_AsStated ==
    [][Is401(lastEvent') =>
          /\ lastEvent'.removeCalls = 1
          /\ token' = NoToken
          /\ href' = "/login"]_vars

\* C1, amended: a response with status 401 to an operation sent through the
\* shared api instance removes the token once and assigns '/login'; a 401
\* answer to login, which is sent with axios itself, removes nothing and
\* leaves the token and the location as they were.
C1_Amended ==
    [][Is401(lastEvent') =>
          IF lastEvent'.req.op # "login"
          THEN /\ lastEvent'.req.via = "api"
               /\ lastEvent'.removeCalls = 1
               /\ token' = NoToken
               /\ href' = "/login"
          ELSE /\ lastEvent'.removeCalls = 0
               /\ token' = token
               /\ href' = href]_vars

\* a 401 has answered a request that carried the stored token: the token is
\* gone and the location is '/login'
C1_Witness ==
    /\ Is401(lastEvent)
    /\ lastEvent.req.op # "login"
    /\ lastEvent.req.headers.Authorization = <<"Bearer", "tokA">>
    /\ lastEvent.removeCalls = 1
    /\ token = NoToken
    /\ href = "/login"

\* C2 as stated: for an ml agent, submitting text that is not valid JSON
\* issues no request and ends in the Failed state with an error shown.
C2_AsStated ==
    [][(/\ lastEvent'.kind = "querySubmit"
        /\ detailPage.agent.type = "ml"
        /\ ~JSONParse(detailPage.query).ok) =>
          /\ pending' = pending
          /\ issued' = issued
          /\ detailPage'.queryError # NullS
          /\ detailPage'.queryResult = Null
          /\ ~detailPage'.queryLoading]_vars

\* C2, amended: for an ml agent, submitting text that is not valid JSON
\* issues no request; if the text is not blank the submission ends in the
\* Failed state with an error shown, and if it is blank (white space only)
\* the submission is ignored and the page state stays as it was.
C2_Amended ==
    [][(/\ lastEvent'.kind = "querySubmit"
        /\ detailPage.agent.type = "ml"
        /\ ~JSONParse(detailPage.query).ok) =>
          /\ pending' = pending
          /\ issued' = issued
          /\ IF Trim(detailPage.query) # <<>>
             THEN /\ detailPage'.queryError # NullS
                  /\ detailPage'.queryResult = Null
                  /\ ~detailPage'.queryLoading
             ELSE detailPage' = detailPage]_vars

\* an ml agent's page after the submission of non-blank text that is no JSON
C2_Witness ==
    /\ lastEvent.kind = "querySubmit"
    /\ detailPage.agent.type = "ml"
    /\ detailPage.query = <<"h", "i", " ">>
    /\ detailPage.queryError = "Failed to get a response from the agent."
    /\ ~detailPage.queryLoading
    /\ pending = <<>>

\* C3 as stated: for an agent whose type is not ml, submitting non-blank
\* text q issues exactly one query request, to that agent, with body
\* {query: q, parameters: {}}, q being the text as entered.
C3_AsStated ==
    [][(/\ lastEvent'.kind = "querySubmit"
        /\ detailPage.agent.type # "ml"
        /\ Trim(detailPage.query) # <<>>) =>
          /\ Len(pending') = Len(pending) + 1
          /\ SubSeq(pending', 1, Len(pending)) = pending
          /\ issued' = issued + 1
          /\ Newest(pending').op = "queryAgent"
          /\ Newest(pending').agentId = detailPage.agent.id
          /\ Newest(pending').body =
                [query |-> detailPage.query, parameters |-> [obj |-> <<>>]]]_vars

\* C4: for an agent whose type is ml, submitting text that parses as the
\* JSON value v issues exactly one query request, with body
\* {query: "", parameters: {data: v}}.
C4_MlQueryBody ==
    [][(/\ lastEvent'.kind = "querySubmit"
        /\ detailPage.agent.type = "ml"
        /\ JSONParse(detailPage.query).ok) =>
          /\ Len(pending') = Len(pending) + 1
          /\ SubSeq(pending', 1, Len(pending)) = pending
          /\ issued' = issued + 1
          /\ Newest(pending').op = "queryAgent"
          /\ Newest(pending').body =
                [query |-> <<>>,
                 parameters |->
                    [obj |-> << << <<"d", "a", "t", "a">>,
                                   JSONParse(detailPage.query).val >> >>]]]_vars

\* an ml agent's page after {"a":1} was submitted: the request in flight
\* carries {query: "", parameters: {data: {a: 1}}}
C4_Witness ==
    /\ lastEvent.kind = "querySubmit"
    /\ detailPage.agent.type = "ml"
    /\ detailPage.query = <<"{", "\"", "a", "\"", ":", "1", "}">>
    /\ pending # <<>>
    /\ Newest(pending).op = "queryAgent"
    /\ Newest(pending).body =
          [query |-> <<>>,
           parameters |->
              [obj |-> << << <<"d", "a", "t", "a">>,
                             [obj |-> << << <<"a">>, [num |-> 1] >> >>] >> >>]]

\* C5 as stated: every request, login among them, carries
\* Authorization: Bearer <token> if a token is stored when it is issued,
\* and no Authorization header if none is.
C5_AsStated ==
    [][issued' > issued =>
          \A k \in (Len(pending) + 1)..Len(pending') :
             pending'[k].headers.Authorization = BearerOf(token)]_vars

\* C5, amended: every request sent through the shared api instance carries
\* Authorization: Bearer <token> if a token is stored when it is issued and
\* no Authorization header if none is; login, sent with axios itself,
\* carries no Authorization header whether or not a token is stored.
C5_Amended ==
    [][issued' > issued =>
          \A k \in (Len(pending) + 1)..Len(pending') :
             pending'[k].headers.Authorization =
                IF pending'[k].op = "login" THEN NoHeader ELSE BearerOf(token)]_vars

\* a request that carries the token is in flight together with a request
\* issued after the token was removed, which carries none
C5_Witness ==
    /\ Len(pending) >= 2
    /\ pending[1].via = "api"
    /\ pending[1].headers.Authorization = <<"Bearer", "tokA">>
    /\ Newest(pending).via = "api"
    /\ Newest(pending).headers.Authorization = NoHeader
    /\ token = NoToken

\* C6 as stated: on the agents list page a declined confirmation issues no
\* request and leaves the list as it is, and the success of a confirmed
\* delete of agent x removes exactly the entries with id x from the list
\* shown, leaving every other entry in place.
C6_AsStated ==
    [][/\ (/\ lastEvent'.kind = "deleteAgent"
           /\ lastEvent'.page = "agents"
           /\ ~lastEvent'.confirmed) =>
             /\ pending' = pending
             /\ issued' = issued
             /\ agentsPage' = agentsPage
       /\ (/\ IsResponse(lastEvent')
           /\ lastEvent'.ok
           /\ lastEvent'.req.op = "deleteAgent"
           /\ lastEvent'.req.owner = "agents"
           /\ lastEvent'.req.live) =>
             agentsPage'.agents =
                FilterOut(agentsPage.agents, lastEvent'.req.agentId)]_vars

\* C7: submitting the upload form with no file selected issues no request
\* and changes no state, and the upload button is disabled whenever no file
\* is selected or an upload of the page is in flight.
C7_UploadNeedsFile ==
    (route.page = "detail" /\ UploadFormRendered(detailPage)) =>
       /\ detailPage.file = NullS =>
             /\ HandleFileUpload(detailPage, route.agentId).send = <<>>
             /\ HandleFileUpload(detailPage, route.agentId).d = detailPage
       /\ (\/ detailPage.file = NullS
           \/ \E k \in DOMAIN pending :
                 pending[k].op = "uploadDocument" /\ pending[k].live) =>
             UploadSubmitDisabled(detailPage)

\* a rag agent's page after an upload has succeeded: no file is selected
\* any more, and nothing is in flight
C7_Witness ==
    /\ route.page = "detail"
    /\ UploadFormRendered(detailPage)
    /\ detailPage.file = NullS
    /\ detailPage.uploadResult = UploadResponse
    /\ UploadSubmitDisabled(detailPage)

\* C8: a failed response whose status is not 401, or a failure without any
\* response, is rejected to the caller as it is, removes no token and
\* assigns no location.
C8_OtherErrorsPassThrough ==
    [][(IsResponse(lastEvent') /\ ~lastEvent'.ok /\ ~Is401(lastEvent')) =>
          /\ lastEvent'.rejection = lastEvent'.error
          /\ lastEvent'.removeCalls = 0
          /\ token' = token
          /\ href' = href]_vars

\* a request that carried the token was answered with status 500: the
\* token is still stored and no navigation is under way
C8_Witness ==
    /\ IsResponse(lastEvent)
    /\ lastEvent.error = HttpError(500)
    /\ lastEvent.rejection = HttpError(500)
    /\ lastEvent.req.via = "api"
    /\ token = "tokA"
    /\ href = ""

\* whether a query request of the mounted detail page is in flight
QueryInFlight ==
    \E k \in DOMAIN pending :
       /\ pending[k].op = "queryAgent"
       /\ pending[k].owner = "detail"
       /\ pending[k].live

\* C9: a submission that sends its request sets queryLoading and clears
\* result and error (Submitting); queryLoading is true exactly while that
\* request is in flight; when the request settles exactly one of result and
\* error is recorded and queryLoading is false again (Success or Failed,
\* then Idle).
C9_QueryStateMachine ==
    /\ [](route.page = "detail" => (detailPage.queryLoading <=> QueryInFlight))
    /\ [][/\ (lastEvent'.kind = "querySubmit" /\ pending' # pending) =>
                /\ ~detailPage.queryLoading
                /\ detailPage'.queryLoading
                /\ detailPage'.queryResult = Null
                /\ detailPage'.queryError = NullS
          /\ (/\ IsResponse(lastEvent')
              /\ lastEvent'.req.op = "queryAgent"
              /\ lastEvent'.req.live) =>
                /\ detailPage.queryLoading
                /\ ~detailPage'.queryLoading
                /\ (detailPage'.queryResult # Null) # (detailPage'.queryError # NullS)
                /\ lastEvent'.ok <=> detailPage'.queryResult # Null]_vars

\* a query has failed on the detail page: the error is recorded, the result
\* is not, and the page is idle again
C9_Witness ==
    /\ route.page = "detail"
    /\ IsResponse(lastEvent)
    /\ lastEvent.req.op = "queryAgent"
    /\ lastEvent.req.live
    /\ ~lastEvent.ok
    /\ detailPage.queryError = "Failed to get a response from the agent."
    /\ detailPage.queryResult = Null
    /\ ~detailPage.queryLoading

\* C10: a step issues at most one request; requests are issued only by a
\* page-load effect, a query submit, an upload submit, a confirmed delete or
\* a call of another page, never by the handling of a response, failed or
\* not: nothing is sent again.
C10_NoRetry ==
    [][/\ issued' <= issued + 1
       /\ Len(pending') <= Len(pending) + 1
       /\ issued' > issued =>
             /\ lastEvent'.kind \in IssueKinds
             /\ Len(pending') = Len(pending) + 1
             /\ SubSeq(pending', 1, Len(pending)) = pending
       /\ IsResponse(lastEvent') =>
             /\ issued' = issued
             /\ Len(pending') = Len(pending) - 1]_vars

\* a query has failed and nothing is in flight afterwards
C10_Witness ==
    /\ IsResponse(lastEvent)
    /\ ~lastEvent.ok
    /\ lastEvent.req.op = "queryAgent"
    /\ pending = <<>>
    /\ issued = 2

\* a failed, respectively successful, response to a request of the mounted
\* page owner for operation op
FailedTo(e, owner, op) ==
    /\ IsResponse(e) /\ ~e.ok
    /\ e.req.op = op /\ e.req.owner = owner /\ e.req.live
SucceededTo(e, owner, op) ==
    /\ IsResponse(e) /\ e.ok
    /\ e.req.op = op /\ e.req.owner = owner /\ e.req.live

\* the ids of the entries of a list of agents
IdsOf(agents) == {agents[k].id : k \in DOMAIN agents}

\* the query state and the upload state of the detail page
QueryState(d) == <<d.query, d.queryLoading, d.queryResult, d.queryError>>
UploadState(d) == <<d.file, d.uploadLoading, d.uploadResult, d.uploadError>>

\* C11 as stated: when getAgent fails because the agent does not exist
\* (status 404), the detail page ends in its "Agent not found." state.
C11_AsStated ==
    [][(/\ FailedTo(lastEvent', "detail", "getAgent")
        /\ lastEvent'.error = HttpError(404)
        /\ DetailView(detailPage) = "spinner") =>
          DetailView(detailPage') = "notFound"]_vars

\* C12: when a confirmed delete fails on the agents list page, the error
\* message is set and the failure leaves the list as it was.
C12_ListDeleteFailure ==
    [][FailedTo(lastEvent', "agents", "deleteAgent") =>
          /\ agentsPage'.error = "Failed to delete agent. Please try again."
          /\ agentsPage'.agents = agentsPage.agents
          /\ agentsPage'.loading = agentsPage.loading]_vars

\* a delete of agent 1 has failed on the list page, which still lists it
C12_Witness ==
    /\ route.page = "agents"
    /\ FailedTo(lastEvent, "agents", "deleteAgent")
    /\ lastEvent.req.agentId = 1
    /\ 1 \in IdsOf(agentsPage.agents)
    /\ agentsPage.error = "Failed to delete agent. Please try again."

\* C13 as stated: while a query of the detail page is in flight nothing
\* prevents a second submission: the submit control stays enabled.
C13_AsStated ==
    (route.page = "detail" /\ DetailRendered(detailPage) /\ QueryInFlight) =>
       ~QuerySubmitDisabled(detailPage)

\* C13, amended: while a query of the mounted detail page is in flight its
\* submit control is disabled, so that a second submission cannot start
\* from the page, and at most one query request of the mounted page is
\* outstanding at a time.
C13_Amended ==
    route.page = "detail" =>
       /\ QueryInFlight => QuerySubmitDisabled(detailPage)
       /\ Cardinality({k \in DOMAIN pending :
                          /\ pending[k].op = "queryAgent"
                          /\ pending[k].owner = "detail"
                          /\ pending[k].live}) <= 1

\* the agent is shown while its query is in flight and the button is
\* disabled
C13_Witness ==
    /\ DetailShown
    /\ QueryInFlight
    /\ QuerySubmitDisabled(detailPage)
    /\ lastEvent.kind = "querySubmit"

\* C14 as stated: when a confirmed delete fails on the detail page an error
\* is shown and the page is otherwise unchanged: the agent and its delete
\* control are still rendered.
C14_AsStated ==
    [][(/\ FailedTo(lastEvent', "detail", "deleteAgent")
        /\ DetailView(detailPage) = "detail") =>
          /\ detailPage'.error # NullS
          /\ DetailView(detailPage') = "detail"
          /\ [detailPage' EXCEPT !.error = NullS] = detailPage]_vars

\* C15 as stated: the stored token changes only when login stores it or
\* logout removes it.
C15_AsStated ==
    [][token' # token =>
          \/ lastEvent'.kind = "logout"
          \/ IsResponse(lastEvent') /\ lastEvent'.ok
                /\ lastEvent'.req.op = "login"]_vars

\* C15, amended: the stored token changes only when login stores it, when
\* logout removes it, or when the response interceptor removes it on a 401
\* response to a request of the api instance.
C15_Amended ==
    [][token' # token =>
          \/ lastEvent'.kind = "logout" /\ token' = NoToken
          \/ /\ IsResponse(lastEvent') /\ lastEvent'.ok
             /\ lastEvent'.req.op = "login"
             /\ token' \in Tokens
          \/ /\ Is401(lastEvent')
             /\ lastEvent'.req.via = "api"
             /\ token' = NoToken]_vars

\* a 401 response to a query has removed the token that the query carried
C15_Witness ==
    /\ Is401(lastEvent)
    /\ lastEvent.req.op = "queryAgent"
    /\ lastEvent.req.headers.Authorization = <<"Bearer", "tokA">>
    /\ token = NoToken

\* C16: an upload with a file selected sends one request with that file
\* and with the collection name of the agent's config, the collection
\* field being left out when the name is empty or missing; when the upload
\* succeeds the file is cleared, the result is recorded and uploadLoading
\* is false.
C16_Upload ==
    [][/\ lastEvent'.kind = "uploadSubmit" =>
             LET name == detailPage.agent.config.collection_name
             IN  /\ detailPage.file # NullS
                 /\ Len(pending') = Len(pending) + 1
                 /\ SubSeq(pending', 1, Len(pending)) = pending
                 /\ Newest(pending').op = "uploadDocument"
                 /\ Newest(pending').headers.ContentType = "multipart/form-data"
                 /\ Newest(pending').body =
                       IF name = "" \/ name = NullS
                       THEN [file |-> detailPage.file]
                       ELSE [file |-> detailPage.file, collection_name |-> name]
                 /\ detailPage'.uploadLoading
       /\ SucceededTo(lastEvent', "detail", "uploadDocument") =>
             /\ detailPage'.file = NullS
             /\ detailPage'.uploadResult = UploadResponse
             /\ detailPage'.uploadError = NullS
             /\ ~detailPage'.uploadLoading]_vars

\* an upload for an agent whose collection name is empty has succeeded: the
\* request held the file alone, and the file is cleared
C16_Witness ==
    /\ SucceededTo(lastEvent, "detail", "uploadDocument")
    /\ lastEvent.req.body = [file |-> "doc1"]
    /\ detailPage.agent.config.collection_name = ""
    /\ detailPage.file = NullS
    /\ detailPage.uploadResult = UploadResponse
    /\ ~detailPage.uploadLoading

\* C17: starting or settling a query leaves the upload state as it is,
\* starting or settling an upload leaves the query state as it is, and the
\* query button is disabled exactly while queryLoading is true.
C17_OwnControlOnly ==
    /\ []((route.page = "detail" /\ DetailRendered(detailPage)) =>
             (QuerySubmitDisabled(detailPage) <=> detailPage.queryLoading))
    /\ [][/\ (\/ lastEvent'.kind = "querySubmit"
              \/ FailedTo(lastEvent', "detail", "queryAgent")
              \/ SucceededTo(lastEvent', "detail", "queryAgent")) =>
                UploadState(detailPage') = UploadState(detailPage)
          /\ (\/ lastEvent'.kind = "uploadSubmit"
              \/ FailedTo(lastEvent', "detail", "uploadDocument")
              \/ SucceededTo(lastEvent', "detail", "uploadDocument")) =>
                QueryState(detailPage') = QueryState(detailPage)]_vars

\* a query has settled while an upload is still in flight: the upload
\* state is untouched and the query button is enabled again
C17_Witness ==
    /\ route.page = "detail"
    /\ SucceededTo(lastEvent, "detail", "queryAgent")
    /\ detailPage.uploadLoading
    /\ detailPage.file = "doc1"
    /\ ~detailPage.queryLoading
    /\ ~QuerySubmitDisabled(detailPage)

C19_AsStated ==
    [][(route.page = "agents" /\ route'.page = "agents") =>
          /\ ~SucceededTo(lastEvent', "agents", "getAgents") =>
                IdsOf(agentsPage'.agents) \subseteq IdsOf(agentsPage.agents)
          /\ SucceededTo(lastEvent', "agents", "deleteAgent") =>
                lastEvent'.req.agentId \notin IdsOf(agentsPage'.agents)]_vars

\* C20 as stated: on the detail page, once loading has finished, the agent
\* is shown and no getAgent request of the page is in flight any more, the
\* agent held is the one the route names.
C20_AsStated ==
    (/\ route.page = "detail"
     /\ ~route.effectDue
     /\ DetailView(detailPage) = "detail"
     /\ ~\E k \in DOMAIN pending :
            pending[k].op = "getAgent" /\ pending[k].live) =>
       detailPage.agent.id = route.agentId

\* C21: on the detail page queryResult and queryError are never both set,
\* and while queryLoading is true both are empty.
C21_ResultXorError ==
    route.page = "detail" =>
       /\ ~(detailPage.queryResult # Null /\ detailPage.queryError # NullS)
       /\ detailPage.queryLoading =>
             /\ detailPage.queryResult = Null
             /\ detailPage.queryError = NullS

\* a third request, a query, is in flight with result and error empty: the
\* page has seen an earlier submission or upload settle
C21_Witness ==
    /\ DetailShown
    /\ lastEvent.kind = "querySubmit"
    /\ detailPage.queryLoading
    /\ detailPage.queryResult = Null
    /\ detailPage.queryError = NullS
    /\ issued = 3
    /\ Len(pending) = 1

\* C22: a 401 response to a request of a mounted page is rejected to the
\* page's handler after the token is removed: the handler records its error
\* and its loading flag is false afterwards.
C22_Rejected401 ==
    [][(/\ Is401(lastEvent')
        /\ lastEvent'.req.live
        /\ lastEvent'.req.owner \in {"detail", "agents"}) =>
          /\ token' = NoToken
          /\ lastEvent'.rejection = lastEvent'.error
          /\ CASE lastEvent'.req.op = "queryAgent" ->
                     /\ detailPage'.queryError # NullS
                     /\ detailPage'.queryResult = Null
                     /\ ~detailPage'.queryLoading
               [] lastEvent'.req.op = "uploadDocument" ->
                     /\ detailPage'.uploadError # NullS
                     /\ ~detailPage'.uploadLoading
               [] lastEvent'.req.op = "getAgent" ->
                     /\ detailPage'.error # NullS
                     /\ ~detailPage'.loading
               [] lastEvent'.req.op = "getAgents" ->
                     /\ agentsPage'.error # NullS
                     /\ ~agentsPage'.loading
               [] lastEvent'.req.op = "deleteAgent" ->
                     IF lastEvent'.req.owner = "detail"
                     THEN detailPage'.error # NullS
                     ELSE agentsPage'.error # NullS]_vars

\* an upload was answered 401: the token is gone, the redirect is under
\* way, and the page has recorded the failure and is not uploading
C22_Witness ==
    /\ Is401(lastEvent)
    /\ lastEvent.req.op = "uploadDocument"
    /\ lastEvent.req.live
    /\ token = NoToken
    /\ href = "/login"
    /\ detailPage.uploadError = "Failed to upload document."
    /\ ~detailPage.uploadLoading

\* C23: submitting a query text that is empty or white space only issues
\* no request and changes no state of the page, whatever the agent's type.
C23_BlankSubmit ==
    /\ [](DetailShown =>
             LET empty == [detailPage EXCEPT !.query = <<>>]
             IN  HandleQuerySubmit(empty, route.agentId) =
                    [d |-> empty, send |-> <<>>])
    /\ [][(/\ lastEvent'.kind = "querySubmit"
           /\ Trim(detailPage.query) = <<>>) =>
             /\ detailPage' = detailPage
             /\ pending' = pending
             /\ issued' = issued]_vars

\* white space was submitted for an ml agent whose earlier submission had
\* failed: the error of that submission is still shown
C23_Witness ==
    /\ DetailShown
    /\ lastEvent.kind = "querySubmit"
    /\ detailPage.agent.type = "ml"
    /\ detailPage.query = <<" ">>
    /\ detailPage.queryError = "Failed to get a response from the agent."
    /\ ~detailPage.queryLoading

\* C24: when an upload fails the file stays selected, uploadError is set,
\* uploadResult is empty and uploadLoading is false, so that the upload
\* button is enabled for the same file.
C24_UploadFailure ==
    [][FailedTo(lastEvent', "detail", "uploadDocument") =>
          /\ detailPage'.file = detailPage.file
          /\ detailPage'.file # NullS
          /\ detailPage'.uploadError = "Failed to upload document."
          /\ detailPage'.uploadResult = Null
          /\ ~detailPage'.uploadLoading
          /\ ~UploadSubmitDisabled(detailPage')]_vars

\* an upload was answered with status 500: the file is still selected and
\* the button is enabled
C24_Witness ==
    /\ DetailShown
    /\ FailedTo(lastEvent, "detail", "uploadDocument")
    /\ lastEvent.error = HttpError(500)
    /\ detailPage.file = "doc1"
    /\ detailPage.uploadError = "Failed to upload document."
    /\ detailPage.uploadResult = Null
    /\ ~UploadSubmitDisabled(detailPage)

=============================================================================
